---- MODULE Spec2Model ----
(***************************************************************************)
(* State-machine model of src/ai-model/main.py: the FastAPI chat service   *)
(* in front of Ollama (inference backend) and Postgres (store).            *)
(*                                                                         *)
(* Texts (message, generated text, stored content, prompt) are sequences   *)
(* of string pieces, one character per piece except for the literals of    *)
(* the code.  A str holding a conversation id is a record [form, hex]:     *)
(* form says how the text is written, hex which 128-bit value it spells.   *)
(* An Optional[str] is <<>> (None) or <<s>>.                               *)
(***************************************************************************)
EXTENDS Integers, Sequences, FiniteSets, TLC

VARIABLES
    phase,          \* position of the startup hook: "boot", "pull", what the
                    \* pull came to, then "serving"
    db_pool,        \* main.py:43  the global pool handle: FALSE is None
    storeUp,        \* environment: the Postgres server answers
    backendUp,      \* environment: the Ollama server is reachable
    conversations,  \* table conversations: set of ids
    messages,       \* table messages: set of rows
    now,            \* the store's clock, source of created_at
    journal,        \* ghost: the turns appended, in the order of the appends
    nextRid,        \* number of chat requests accepted so far
    minted,         \* number of ids uuid4() has produced so far
    reqs            \* the in-flight request of each worker slot

vars == <<phase, db_pool, storeUp, backendUp, conversations, messages, now,
          journal, nextRid, minted, reqs>>

\* ---------------------------------------------------------------- bounds
MaxRequests == 2
SerialRequests == 3
SerialPreload == 5
PromptTurns == 3
PairRequests == 2
HangRequests == 2
Slots == {1, 2}

\* ------------------------------------------------------------- constants
HistoryLimit == 10
MODEL_NAME == "tinyllama"

\* ------------------------------------------------------------------ text
\* The characters str.strip() removes: every code point c for which
\* chr(c).isspace().  A character that has no escape in a TLA+ string is
\* the piece "U+hhhh" of its code point.
Whitespace ==
    {"\t", "\n", "U+000B", "\f", "\r", "U+001C", "U+001D", "U+001E", "U+001F",
     " ", "U+0085", "U+00A0", "U+1680", "U+2000", "U+2001", "U+2002",
     "U+2003", "U+2004", "U+2005", "U+2006", "U+2007", "U+2008", "U+2009",
     "U+200A", "U+2028", "U+2029", "U+202F", "U+205F", "U+3000"}

RECURSIVE LStrip(_)
LStrip(t) ==
    IF t # <<>> /\ Head(t) \in Whitespace THEN LStrip(Tail(t)) ELSE t

RECURSIVE RStrip(_)
RStrip(t) ==
    IF t # <<>> /\ t[Len(t)] \in Whitespace
    THEN RStrip(SubSeq(t, 1, Len(t) - 1))
    ELSE t

\* str.strip()
Strip(t) == RStrip(LStrip(t))

RECURSIVE Reverse(_)
Reverse(s) == IF s = <<>> THEN <<>> ELSE Reverse(Tail(s)) \o <<Head(s)>>

Take(s, n) == SubSeq(s, 1, IF Len(s) < n THEN Len(s) ELSE n)

\* ------------------------------------------------------- conversation ids
\* The id values callers know from elsewhere; uuid4() produces the others.
KnownHex == {1}

EmptyStr == [form |-> "empty", hex |-> 0]
Canon(h) == [form |-> "canon", hex |-> h]
Upper(h) == [form |-> "upper", hex |-> h]
\* two malformed texts: "not-a-uuid", and "gaaaaaaa-aaaa-4aaa-8aaa-aaaaaaaaaaaa"
\* (32 digits once the hyphens are removed, one of them not hexadecimal)
BadStr == [form |-> "bad", hex |-> 0]
BadHexStr == [form |-> "badhex", hex |-> 0]

\* bool(s) of a str
Truthy(s) == s.form # "empty"

\* uuid.UUID(s) accepts the canonical text and other spellings of the same
\* value; anything else raises ValueError
ValidUUID(s) == s.form \in {"canon", "upper"}
ParseUUID(s) == s.hex

\* str(exc) of the ValueError: the length check of uuid.UUID fails first,
\* else int(hex, 16) does
UUIDError(s) ==
    IF s.form = "badhex"
    THEN "invalid literal for int() with base 16: 'gaaaaaaaaaaa4aaa8aaaaaaaaaaaaaaa'"
    ELSE "badly formed hexadecimal UUID string"

\* str(uuid.uuid4()): canonical text of a value never produced before
Uuid4Str(n) == Canon(100 + n)

\* ------------------------------------------------------------ the store
\* INSERT INTO conversations(id) VALUES($1) ON CONFLICT DO NOTHING
UpsertConversation(convs, id) == convs \cup {id}

\* INSERT INTO messages(conversation_id, role, content): created_at is the
\* store's clock at the insert, rid the request that wrote the row
NewRow(id, role, content, ts, rid) ==
    [conversation_id |-> id, role |-> role, content |-> content,
     created_at |-> ts, rid |-> rid]

\* the store's clock moves on with every row it stamps
Tick(ts) == ts + 1

\* a turn as the handler hands it to the store
Turn(id, role, content) ==
    [conversation_id |-> id, role |-> role, content |-> content]

RowsOf(rows, id) == {r \in rows : r.conversation_id = id}

RECURSIVE OrderByCreatedAtAsc(_)
OrderByCreatedAtAsc(rows) ==
    IF rows = {} THEN <<>>
    ELSE LET first == CHOOSE r \in rows :
                        \A q \in rows : r.created_at <= q.created_at
         IN  <<first>> \o OrderByCreatedAtAsc(rows \ {first})

RECURSIVE OrderByCreatedAtDesc(_)
OrderByCreatedAtDesc(rows) ==
    IF rows = {} THEN <<>>
    ELSE LET first == CHOOSE r \in rows :
                        \A q \in rows : r.created_at >= q.created_at
         IN  <<first>> \o OrderByCreatedAtDesc(rows \ {first})

\* faulty variant: ORDER BY created_at ASC LIMIT 10, the oldest turns
SelectOldest(rows, id) ==
    Reverse(Take(OrderByCreatedAtAsc(RowsOf(rows, id)), HistoryLimit))

\* SELECT role, content FROM messages WHERE conversation_id = $1
\* ORDER BY created_at DESC LIMIT 10
SelectRecent(rows, id) ==
    Take(OrderByCreatedAtDesc(RowsOf(rows, id)), HistoryLimit)

\* history = [{"role": ..., "content": ...} for r in reversed(rows)]
LoadHistory(rows, id) ==
    LET got == Reverse(SelectRecent(rows, id))
    IN  [i \in 1..Len(got) |-> [role |-> got[i].role, content |-> got[i].content]]

\* faulty variant: ORDER BY created_at DESC
SelectAllNewestFirst(rows, id) ==
    LET got == OrderByCreatedAtDesc(RowsOf(rows, id))
    IN  [i \in 1..Len(got) |->
            [role |-> got[i].role, content |-> got[i].content,
             created_at |-> ToString(got[i].created_at)]]

\* SELECT role, content, created_at FROM messages WHERE conversation_id = $1
\* ORDER BY created_at ASC, each row rendered as a Message
SelectAll(rows, id) ==
    LET got == OrderByCreatedAtAsc(RowsOf(rows, id))
    IN  [i \in 1..Len(got) |->
            [role |-> got[i].role, content |-> got[i].content,
             created_at |-> ToString(got[i].created_at)]]

\* ---------------------------------------------------------------- prompt
Preamble ==
    <<"You are a helpful, friendly AI assistant. ",
      "Answer concisely and accurately.\n\n">>

\* faulty variant: only the role "assistant" is labelled Assistant
RoleLabelByAssistant(role) == IF role = "assistant" THEN "Assistant" ELSE "User"

RoleLabel(role) == IF role = "user" THEN "User" ELSE "Assistant"

RECURSIVE RenderHistory(_)
RenderHistory(history) ==
    IF history = <<>> THEN <<>>
    ELSE <<RoleLabel(Head(history).role), ": ">> \o Head(history).content
         \o <<"\n">> \o RenderHistory(Tail(history))

_build_prompt(history, user_message) ==
    Preamble \o RenderHistory(history)
    \o <<"User: ">> \o user_message \o <<"\nAssistant:">>

\* ------------------------------------------------------------- requests
NoReply == [kind |-> "none", status_code |-> 0, json_ok |-> FALSE,
            has_response |-> FALSE, response |-> <<>>]

\* ChatResponse(response, conversation_id, model)
ChatResponse(text, id, model) ==
    [response |-> text, conversation_id |-> id, model |-> model]

NoResponse == ChatResponse(<<>>, EmptyStr, "")

\* HealthResponse(status, model, ollama, database)
HealthResponse(status, model, ollama, database) ==
    [status |-> status, model |-> model, ollama |-> ollama, database |-> database]

NoHealth == HealthResponse("", "", "", "")

\* A worker slot with no request in it.  Ghost fields: reply (what the
\* backend did), loaded (the history query answered), readErr / writeErr
\* (the two logger.warning calls), appends (the INSERTs into messages sent
\* to the store and whether each was stored), acquires / statements /
\* inferCalls (external calls made for the request), seen (the ids that
\* existed when the request arrived), probe (what the backend did to the
\* health probe), backendAt / storeAt (whether the backend and the store
\* were up when the health handler probed them; storeAt is that of its
\* latest store call, and a later call is made only after an earlier one
\* was answered).  exc is the exception in flight inside an async with
\* block ("" for none) and fetched the rows get_history has read.
Idle ==
    [kind |-> "idle", pc |-> "idle", rid |-> 0,
     req |-> [message |-> <<>>, conversation_id |-> <<>>],
     conversation_id |-> EmptyStr, history |-> <<>>,
     prompt |-> <<>>, reply |-> NoReply, ai_text |-> <<>>, status |-> 0,
     detail |-> "", response |-> NoResponse, rows |-> <<>>,
     loaded |-> FALSE, readErr |-> FALSE, writeErr |-> FALSE, appends |-> <<>>,
     acquires |-> 0, statements |-> 0, inferCalls |-> 0, seen |-> {},
     ollama_status |-> "", db_status |-> "", health |-> NoHealth,
     probe |-> NoReply, backendAt |-> "", storeAt |-> "",
     exc |-> "", fetched |-> <<>>]

\* what callers send
UserMessages == { <<" ", "h", "i">> }
SerialMessages == { <<"h", "i">>, <<" ", "y", "o">> }

MintedSoFar(n) == {Canon(100 + i) : i \in 0..(n - 1)}

\* an Optional[str]: None, "", a malformed text, or a spelling of an id the
\* caller knows or was given by an earlier response
SuppliedIds(n) ==
    {<<>>, <<EmptyStr>>, <<BadStr>>}
    \cup {<<Canon(h)>> : h \in KnownHex} \cup {<<Upper(h)>> : h \in KnownHex}
    \cup {<<s>> : s \in MintedSoFar(n)}

SerialIds(n) ==
    {<<>>} \cup {<<Canon(h)>> : h \in KnownHex} \cup {<<Upper(h)>> : h \in KnownHex}

\* the path parameter of GET /conversations/{conversation_id}/messages
PathIds(n) ==
    {BadStr, BadHexStr} \cup {Canon(h) : h \in KnownHex}
    \cup {Upper(h) : h \in KnownHex} \cup MintedSoFar(n)

SerialPathIds(n) ==
    {Canon(h) : h \in KnownHex} \cup {Upper(h) : h \in KnownHex}
    \cup (MintedSoFar(n) \ MintedSoFar(n - 1))

\* ---------------------------------------------------------- the backend
\* what POST /api/generate can come to: an HTTP response, or an exception
\* of the transport
Response(code, parses, has, text) ==
    [kind |-> "response", status_code |-> code, json_ok |-> parses,
     has_response |-> has, response |-> text]

ConnectError == [kind |-> "connect_error", status_code |-> 0, json_ok |-> FALSE,
                 has_response |-> FALSE, response |-> <<>>]
ReadTimeout == [kind |-> "timeout", status_code |-> 0, json_ok |-> FALSE,
                has_response |-> FALSE, response |-> <<>>]

Generated == <<" ", "U+00A0", "o", "k", "\r", "\n">>

BackendReplies(up) ==
    IF up
    THEN {Response(200, TRUE, TRUE, Generated), Response(200, TRUE, FALSE, <<>>),
          Response(200, FALSE, FALSE, <<>>), Response(500, TRUE, FALSE, <<>>),
          ReadTimeout}
    ELSE {ConnectError}

\* what GET /api/tags and POST /api/pull can come to
ProbeReplies(up) ==
    IF up
    THEN {Response(200, TRUE, FALSE, <<>>), Response(500, TRUE, FALSE, <<>>),
          ReadTimeout}
    ELSE {ConnectError}

SerialReplies ==
    {Response(200, TRUE, TRUE, Generated), Response(500, TRUE, FALSE, <<>>)}

\* Response.is_success
IsSuccess(code) == code \in 200..299

\* ------------------------------------------------------- POST /chat steps
\* conversation_id = req.conversation_id or str(uuid.uuid4())
Supplied(req) == req.conversation_id # <<>> /\ Truthy(req.conversation_id[1])

\* faulty variant: the supplied id is ignored, a new one is minted every time
ResolveAlwaysMint(req, n) == Uuid4Str(n)

ResolveConversationId(req, n) ==
    IF Supplied(req) THEN req.conversation_id[1] ELSE Uuid4Str(n)

\* raise HTTPException(status_code, detail)
Raise(r, code, detail) ==
    [r EXCEPT !.status = code, !.detail = detail, !.pc = "done"]

\* an exception raised inside an async with db_pool.acquire() block: the
\* connection is released before the exception reaches the except clause
RaiseInside(r, e, release) == [r EXCEPT !.exc = e, !.pc = release]

\* what leaves the block once the release was awaited: the exception of a
\* release that failed, else the one that was in flight, else none
AfterRelease(r, up) == IF up THEN r.exc ELSE "connection"

\* faulty variant: the read error is raised to the caller
OnReadErrorAbort(r) ==
    Raise([r EXCEPT !.readErr = TRUE, !.exc = ""], 500, "DB read error")

\* except Exception: logger.warning("DB read error"), then on to the prompt
OnReadError(r) == [r EXCEPT !.readErr = TRUE, !.exc = "", !.pc = "infer"]

\* the history query answered: history is assigned, the block is left
OnHistory(r, rows) ==
    [r EXCEPT !.history = LoadHistory(rows, ParseUUID(r.conversation_id)),
              !.loaded = TRUE, !.pc = "release_load"]

\* faulty variant: a failed inference call is logged and the handler goes on
OnGenerateSwallow(r, reply) ==
    IF reply.kind = "response" /\ IsSuccess(reply.status_code) /\ reply.json_ok
    THEN [r EXCEPT !.ai_text = Strip(IF reply.has_response
                                     THEN reply.response ELSE <<>>),
                   !.pc = "persist"]
    ELSE [r EXCEPT !.pc = "persist"]

\* faulty variant: the two except clauses carry each other's status
OnGenerateSwapped(r, reply) ==
    IF reply.kind # "response"
    THEN Raise(r, 502, "AI service error")
    ELSE IF ~IsSuccess(reply.status_code)
    THEN Raise(r, 503, "AI service unavailable")
    ELSE IF ~reply.json_ok
    THEN Raise(r, 502, "AI service error")
    ELSE [r EXCEPT !.ai_text = Strip(IF reply.has_response
                                     THEN reply.response ELSE <<>>),
                   !.pc = "persist"]

\* faulty variant: a failed inference call is made once more
OnGenerateRetry(r, reply) ==
    IF reply.kind = "response" /\ IsSuccess(reply.status_code) /\ reply.json_ok
    THEN [r EXCEPT !.ai_text = Strip(IF reply.has_response
                                     THEN reply.response ELSE <<>>),
                   !.pc = "persist"]
    ELSE IF r.inferCalls < 2
    THEN [r EXCEPT !.pc = "infer"]
    ELSE IF reply.kind = "response" /\ ~IsSuccess(reply.status_code)
    THEN Raise(r, 502, "AI service error")
    ELSE Raise(r, 503, "AI service unavailable")

\* the try/except around the POST to /api/generate
OnGenerate(r, reply) ==
    IF reply.kind # "response"
    THEN Raise(r, 503, "AI service unavailable")
    ELSE IF ~IsSuccess(reply.status_code)
    THEN Raise(r, 502, "AI service error")
    ELSE IF ~reply.json_ok
    THEN Raise(r, 503, "AI service unavailable")
    ELSE [r EXCEPT !.ai_text = Strip(IF reply.has_response
                                     THEN reply.response ELSE <<>>),
                   !.pc = "persist"]

\* return ChatResponse(response=ai_text, conversation_id=..., model=...)
Respond(r) ==
    [r EXCEPT !.status = 200, !.pc = "done",
              !.response = ChatResponse(r.ai_text, r.conversation_id, MODEL_NAME)]

\* faulty variant: the write error is raised to the caller
OnWriteErrorRaise(r) ==
    Raise([r EXCEPT !.writeErr = TRUE, !.exc = ""], 500, "DB write error")

\* except Exception: logger.warning("DB write error"), then the return
OnWriteError(r) == Respond([r EXCEPT !.writeErr = TRUE, !.exc = ""])

\* faulty variant: each INSERT in a try block of its own
OnUserAppendErrorContinue(r) == [r EXCEPT !.writeErr = TRUE, !.pc = "persist2"]

\* the first INSERT raised: the exception leaves the one block around both
OnUserAppendError(r) == RaiseInside(r, "connection", "release_persist")

\* after the first INSERT: the second one is next, in the same try block
OnUserStored(r) == [r EXCEPT !.pc = "persist2"]

\* every id value in existence: known to callers, stored, or minted
SeenIds ==
    KnownHex \cup conversations \cup {row.conversation_id : row \in messages}
    \cup {ParseUUID(m) : m \in MintedSoFar(minted)}

\* a request arrives: the handler runs to its first await
ChatBegin(s, maxReq, ids, msgs) ==
    /\ phase = "serving"
    /\ reqs[s].kind = "idle"
    /\ nextRid < maxReq
    /\ \E c \in ids, m \in msgs :
          LET req == [message |-> m, conversation_id |-> c]
              r0  == [Idle EXCEPT
                        !.kind = "chat", !.rid = nextRid + 1, !.req = req,
                        !.seen = SeenIds,
                        !.conversation_id = ResolveConversationId(req, minted),
                        !.pc = IF db_pool THEN "load" ELSE "infer"]
          IN  /\ reqs' = [reqs EXCEPT ![s] = r0]
              /\ minted' = IF Supplied(req) THEN minted ELSE minted + 1
    /\ nextRid' = nextRid + 1
    /\ UNCHANGED <<phase, db_pool, storeUp, backendUp, conversations, messages, now, journal>>

\* async with db_pool.acquire() of the load block
ChatLoadAcquire(s) ==
    LET r == reqs[s]
        a == [r EXCEPT !.acquires = r.acquires + 1]
    IN  /\ r.kind = "chat" /\ r.pc = "load"
        /\ reqs' = [reqs EXCEPT ![s] =
                      IF storeUp THEN [a EXCEPT !.pc = "upsert"]
                      ELSE OnReadError(a)]
        /\ UNCHANGED <<phase, db_pool, storeUp, backendUp, conversations, messages,
                       now, journal, nextRid, minted>>

\* the upsert of the conversation; uuid.UUID(conversation_id) is evaluated
\* first and raises before anything is sent
ChatUpsert(s) ==
    LET r == reqs[s]
        q == [r EXCEPT !.statements = r.statements + 1]
    IN  /\ r.kind = "chat" /\ r.pc = "upsert"
        /\ IF ~ValidUUID(r.conversation_id)
           THEN /\ reqs' = [reqs EXCEPT ![s] =
                              RaiseInside(r, UUIDError(r.conversation_id),
                                          "release_load")]
                /\ UNCHANGED conversations
           ELSE IF ~storeUp
           THEN /\ reqs' = [reqs EXCEPT ![s] =
                              RaiseInside(q, "connection", "release_load")]
                /\ UNCHANGED conversations
           ELSE /\ reqs' = [reqs EXCEPT ![s] = [q EXCEPT !.pc = "fetch"]]
                /\ conversations' =
                      UpsertConversation(conversations, ParseUUID(r.conversation_id))
        /\ UNCHANGED <<phase, db_pool, storeUp, backendUp, messages, now, journal, nextRid, minted>>

\* faulty variant: the load waits while another request of the same
\* conversation is between its load and the end of its persistence
ChatFetchExclusive(s) ==
    LET r == reqs[s]
        q == [r EXCEPT !.statements = r.statements + 1]
    IN  /\ r.kind = "chat" /\ r.pc = "fetch"
        /\ \A t \in Slots \ {s} :
              ~(/\ reqs[t].kind = "chat"
                /\ reqs[t].conversation_id = r.conversation_id
                /\ reqs[t].pc \in {"release_load", "infer", "persist", "persist1",
                                   "persist2", "release_persist"})
        /\ reqs' = [reqs EXCEPT ![s] =
                      IF storeUp THEN OnHistory(q, messages)
                      ELSE RaiseInside(q, "connection", "release_load")]
        /\ UNCHANGED <<phase, db_pool, storeUp, backendUp, conversations, messages,
                       now, journal, nextRid, minted>>

\* the SELECT of the recent turns
ChatFetch(s) ==
    LET r == reqs[s]
        q == [r EXCEPT !.statements = r.statements + 1]
    IN  /\ r.kind = "chat" /\ r.pc = "fetch"
        /\ reqs' = [reqs EXCEPT ![s] =
                      IF storeUp THEN OnHistory(q, messages)
                      ELSE RaiseInside(q, "connection", "release_load")]
        /\ UNCHANGED <<phase, db_pool, storeUp, backendUp, conversations, messages,
                       now, journal, nextRid, minted>>

\* the end of the load block: the connection is released.  A release that
\* fails, or an exception that was in flight, reaches except Exception;
\* history keeps what was assigned to it.
ChatLoadRelease(s) ==
    LET r == reqs[s]
    IN  /\ r.kind = "chat" /\ r.pc = "release_load"
        /\ reqs' = [reqs EXCEPT ![s] =
                      IF AfterRelease(r, storeUp) = ""
                      THEN [r EXCEPT !.pc = "infer"]
                      ELSE OnReadError(r)]
        /\ UNCHANGED <<phase, db_pool, storeUp, backendUp, conversations, messages,
                       now, journal, nextRid, minted>>

\* the prompt is built and posted to the backend
ChatInfer(s, replies) ==
    LET r == reqs[s]
        p == [r EXCEPT !.prompt = _build_prompt(r.history, r.req.message),
                       !.inferCalls = r.inferCalls + 1]
    IN  /\ r.kind = "chat" /\ r.pc = "infer"
        /\ \E reply \in replies :
              reqs' = [reqs EXCEPT ![s] =
                         OnGenerate([p EXCEPT !.reply = reply], reply)]
        /\ UNCHANGED <<phase, db_pool, storeUp, backendUp, conversations, messages,
                       now, journal, nextRid, minted>>

\* faulty variant: a request without a pool connects to the store by
\* itself and keeps the handle
ChatAcquireReconnect(s) ==
    LET r == reqs[s]
        a == [r EXCEPT !.acquires = r.acquires + 1]
    IN  /\ r.kind = "chat" /\ r.pc = "persist"
        /\ db_pool' = (db_pool \/ storeUp)
        /\ reqs' = [reqs EXCEPT ![s] =
                      IF ~db_pool /\ ~storeUp THEN Respond(r)
                      ELSE IF ~storeUp THEN OnWriteError(a)
                      ELSE [a EXCEPT !.pc = "persist1"]]
        /\ UNCHANGED <<phase, storeUp, backendUp, conversations, messages,
                       now, journal, nextRid, minted>>

\* if db_pool: async with db_pool.acquire()
ChatAcquire(s) ==
    LET r == reqs[s]
        a == [r EXCEPT !.acquires = r.acquires + 1]
    IN  /\ r.kind = "chat" /\ r.pc = "persist"
        /\ reqs' = [reqs EXCEPT ![s] =
                      IF ~db_pool THEN Respond(r)
                      ELSE IF ~storeUp THEN OnWriteError(a)
                      ELSE [a EXCEPT !.pc = "persist1"]]
        /\ UNCHANGED <<phase, db_pool, storeUp, backendUp, conversations, messages,
                       now, journal, nextRid, minted>>

\* the INSERT of the user turn; uuid.UUID(conversation_id) is evaluated
\* first and raises before anything is sent
ChatPersistUser(s) ==
    LET r   == reqs[s]
        id  == ParseUUID(r.conversation_id)
        q   == [r EXCEPT !.statements = r.statements + 1]
        no  == [q EXCEPT !.appends = Append(r.appends, [role |-> "user", ok |-> FALSE])]
        yes == [q EXCEPT !.appends = Append(r.appends, [role |-> "user", ok |-> TRUE])]
    IN  /\ r.kind = "chat" /\ r.pc = "persist1"
        /\ IF ~ValidUUID(r.conversation_id)
           THEN /\ reqs' = [reqs EXCEPT ![s] =
                              RaiseInside(r, UUIDError(r.conversation_id),
                                          "release_persist")]
                /\ UNCHANGED <<messages, now, journal>>
           ELSE IF ~storeUp
           THEN /\ reqs' = [reqs EXCEPT ![s] = OnUserAppendError(no)]
                /\ UNCHANGED <<messages, now, journal>>
           ELSE /\ reqs' = [reqs EXCEPT ![s] = OnUserStored(yes)]
                /\ messages' = messages \cup
                     {NewRow(id, "user", r.req.message, now, r.rid)}
                /\ journal' = Append(journal, Turn(id, "user", r.req.message))
                /\ now' = Tick(now)
        /\ UNCHANGED <<phase, db_pool, storeUp, backendUp, conversations, nextRid, minted>>

\* the INSERT of the assistant turn, the last statement of the block
ChatPersistAssistant(s) ==
    LET r   == reqs[s]
        id  == ParseUUID(r.conversation_id)
        q   == [r EXCEPT !.statements = r.statements + 1]
        no  == [q EXCEPT !.appends = Append(r.appends, [role |-> "assistant", ok |-> FALSE])]
        yes == [q EXCEPT !.appends = Append(r.appends, [role |-> "assistant", ok |-> TRUE])]
    IN  /\ r.kind = "chat" /\ r.pc = "persist2"
        /\ IF storeUp
           THEN /\ reqs' = [reqs EXCEPT ![s] = [yes EXCEPT !.pc = "release_persist"]]
                /\ messages' = messages \cup
                     {NewRow(id, "assistant", r.ai_text, now, r.rid)}
                /\ journal' = Append(journal, Turn(id, "assistant", r.ai_text))
                /\ now' = Tick(now)
           ELSE /\ reqs' = [reqs EXCEPT ![s] =
                              RaiseInside(no, "connection", "release_persist")]
                /\ UNCHANGED <<messages, now, journal>>
        /\ UNCHANGED <<phase, db_pool, storeUp, backendUp, conversations, nextRid, minted>>

\* the end of the persist block: the connection is released, then the
\* return.  A release that fails, or an exception that was in flight,
\* reaches except Exception; what was stored stays stored.
ChatPersistRelease(s) ==
    LET r == reqs[s]
    IN  /\ r.kind = "chat" /\ r.pc = "release_persist"
        /\ reqs' = [reqs EXCEPT ![s] =
                      IF AfterRelease(r, storeUp) = ""
                      THEN Respond(r)
                      ELSE OnWriteError(r)]
        /\ UNCHANGED <<phase, db_pool, storeUp, backendUp, conversations, messages,
                       now, journal, nextRid, minted>>

\* the response (or the error) has gone to the caller
Return(s) ==
    /\ reqs[s].pc = "done"
    /\ reqs' = [reqs EXCEPT ![s] = Idle]
    /\ UNCHANGED <<phase, db_pool, storeUp, backendUp, conversations, messages,
                   now, journal, nextRid, minted>>

\* ------------------------------- GET /conversations/{conversation_id}/messages
\* the request arrives: 503 without a pool, else the handler waits for a
\* connection
get_history(s, ids) ==
    /\ phase = "serving"
    /\ reqs[s].kind = "idle"
    /\ \E c \in ids :
          LET r == [Idle EXCEPT !.kind = "history", !.conversation_id = c]
          IN  reqs' = [reqs EXCEPT ![s] =
                         IF ~db_pool THEN Raise(r, 503, "Database not available")
                         ELSE [r EXCEPT !.pc = "acquire"]]
    /\ UNCHANGED <<phase, db_pool, storeUp, backendUp, conversations, messages,
                   now, journal, nextRid, minted>>

\* async with db_pool.acquire(); a failure is raised as 500 with its text
HistoryAcquire(s) ==
    LET r == reqs[s]
        a == [r EXCEPT !.acquires = 1]
    IN  /\ r.kind = "history" /\ r.pc = "acquire"
        /\ reqs' = [reqs EXCEPT ![s] =
                      IF storeUp THEN [a EXCEPT !.pc = "query"]
                      ELSE Raise(a, 500, "connection")]
        /\ UNCHANGED <<phase, db_pool, storeUp, backendUp, conversations, messages,
                       now, journal, nextRid, minted>>

\* faulty variant: a query that fails reads as an empty conversation
HistoryResultSilent(r, c, up, rows) ==
    IF ~ValidUUID(c)
    THEN RaiseInside(r, UUIDError(c), "release")
    ELSE IF ~up
    THEN [r EXCEPT !.statements = 1, !.fetched = <<>>, !.pc = "release"]
    ELSE [r EXCEPT !.statements = 1, !.loaded = TRUE, !.pc = "release",
                   !.fetched = SelectAll(rows, ParseUUID(c))]

\* what the query of path parameter c comes to: uuid.UUID(c) is evaluated
\* before the SELECT is sent; an exception leaves the block, an answer is
\* kept (the local rows, here fetched) until the block is left
HistoryResult(r, c, up, rows) ==
    IF ~ValidUUID(c)
    THEN RaiseInside(r, UUIDError(c), "release")
    ELSE IF ~up
    THEN RaiseInside([r EXCEPT !.statements = 1], "connection", "release")
    ELSE [r EXCEPT !.statements = 1, !.loaded = TRUE, !.pc = "release",
                   !.fetched = SelectAll(rows, ParseUUID(c))]

\* rows = await conn.fetch(...)
HistoryQuery(s) ==
    LET r == reqs[s]
    IN  /\ r.kind = "history" /\ r.pc = "query"
        /\ reqs' = [reqs EXCEPT ![s] =
                      HistoryResult(r, r.conversation_id, storeUp, messages)]
        /\ UNCHANGED <<phase, db_pool, storeUp, backendUp, conversations, messages,
                       now, journal, nextRid, minted>>

\* the end of the block: the connection is released, then the list of
\* Message is returned; every exception is raised as 500 with its text
HistoryRelease(s) ==
    LET r == reqs[s]
        e == AfterRelease(r, storeUp)
    IN  /\ r.kind = "history" /\ r.pc = "release"
        /\ reqs' = [reqs EXCEPT ![s] =
                      IF e = ""
                      THEN [r EXCEPT !.status = 200, !.pc = "done",
                                     !.rows = r.fetched]
                      ELSE Raise([r EXCEPT !.exc = ""], 500, e)]
        /\ UNCHANGED <<phase, db_pool, storeUp, backendUp, conversations, messages,
                       now, journal, nextRid, minted>>

\* the store calls of the history handler, one await each
HistoryStep(s) == HistoryAcquire(s) \/ HistoryQuery(s) \/ HistoryRelease(s)

\* ------------------------------------------------------------ GET /health
\* ollama_status: "unreachable" unless the tags request answers
OllamaStatus(reply) ==
    IF reply.kind # "response" THEN "unreachable"
    ELSE IF reply.status_code = 200 THEN "healthy"
    ELSE "unhealthy"

\* faulty variant: a missing pool is reported like a failed query
DbStatusNoPoolUnhealthy(pool, up) ==
    IF pool /\ up THEN "healthy" ELSE "unhealthy"

\* db_status: "unavailable" without a pool, else what SELECT 1 comes to
DbStatus(pool, up) ==
    IF ~pool THEN "unavailable"
    ELSE IF up THEN "healthy"
    ELSE "unhealthy"

Up(b) == IF b THEN "up" ELSE "down"

\* the handler runs to the answer of the tags request
HealthProbeBackend(s, replies) ==
    /\ phase = "serving"
    /\ reqs[s].kind = "idle"
    /\ \E reply \in replies :
          reqs' = [reqs EXCEPT ![s] =
                     [Idle EXCEPT !.kind = "health", !.pc = "db",
                                  !.probe = reply,
                                  !.backendAt = Up(backendUp),
                                  !.ollama_status = OllamaStatus(reply)]]
    /\ UNCHANGED <<phase, db_pool, storeUp, backendUp, conversations, messages,
                   now, journal, nextRid, minted>>

\* return HealthResponse(status="healthy", ...)
HealthResult(r, db) ==
    [r EXCEPT !.pc = "done", !.status = 200, !.db_status = db,
              !.health = HealthResponse("healthy", MODEL_NAME,
                                        r.ollama_status, db)]

\* if db_pool: async with db_pool.acquire(); without a pool, or when the
\* acquire fails, the response follows
HealthProbeStore(s) ==
    LET r == reqs[s]
        p == [r EXCEPT !.storeAt = Up(storeUp)]
        a == [p EXCEPT !.acquires = 1]
    IN  /\ r.kind = "health" /\ r.pc = "db"
        /\ reqs' = [reqs EXCEPT ![s] =
                      IF ~db_pool THEN HealthResult(p, DbStatus(db_pool, storeUp))
                      ELSE IF ~storeUp THEN HealthResult(a, DbStatus(db_pool, storeUp))
                      ELSE [a EXCEPT !.pc = "select"]]
        /\ UNCHANGED <<phase, db_pool, storeUp, backendUp, conversations, messages,
                       now, journal, nextRid, minted>>

\* await conn.fetchval("SELECT 1"): answered or failed, the block is left
HealthSelect(s) ==
    LET r == reqs[s]
        q == [r EXCEPT !.storeAt = Up(storeUp), !.statements = 1]
    IN  /\ r.kind = "health" /\ r.pc = "select"
        /\ reqs' = [reqs EXCEPT ![s] =
                      IF ~storeUp THEN RaiseInside(q, "connection", "release")
                      ELSE [q EXCEPT !.pc = "release"]]
        /\ UNCHANGED <<phase, db_pool, storeUp, backendUp, conversations, messages,
                       now, journal, nextRid, minted>>

\* the end of the async with block: the connection is released (the pool
\* resets it over the wire).  db_status = "healthy" is assigned after the
\* block, so a release that fails is caught like a failed SELECT 1.
HealthRelease(s) ==
    LET r == reqs[s]
        e == AfterRelease(r, storeUp)
        q == [r EXCEPT !.exc = "",
                       !.storeAt = IF r.exc = "" THEN Up(storeUp) ELSE "down"]
    IN  /\ r.kind = "health" /\ r.pc = "release"
        /\ reqs' = [reqs EXCEPT ![s] =
                      HealthResult(q, DbStatus(db_pool, e = ""))]
        /\ UNCHANGED <<phase, db_pool, storeUp, backendUp, conversations, messages,
                       now, journal, nextRid, minted>>

\* the store calls of the health handler, one await each
HealthStep(s) == HealthProbeStore(s) \/ HealthSelect(s) \/ HealthRelease(s)

\* -------------------------------------------------------------- lifecycle
\* the startup hook, first part: create_pool sets the handle, or fails and
\* a warning is logged
startup ==
    /\ phase = "boot"
    /\ db_pool' = storeUp
    /\ phase' = "pull"
    /\ UNCHANGED <<storeUp, backendUp, conversations, messages, now, journal,
                   nextRid, minted, reqs>>

\* what _ensure_model logs: the model is ready, the pull was answered with
\* another status, or the pull could not be made
PullOutcome(reply) ==
    IF reply.kind # "response" THEN "failed"
    ELSE IF reply.status_code = 200 THEN "ready"
    ELSE "refused"

PullOutcomes == {"ready", "refused", "failed"}

\* the startup hook, second part: the pull of the model, its outcome logged
_ensure_model(replies) ==
    /\ phase = "pull"
    /\ \E reply \in replies : phase' = PullOutcome(reply)
    /\ UNCHANGED <<db_pool, storeUp, backendUp, conversations, messages, now,
                   journal, nextRid, minted, reqs>>

\* faulty variant: only a successful pull lets the application serve
AfterPullFatal(o) == IF o = "ready" THEN "serving" ELSE "stopped"

\* what the application does once the pull has come to outcome o
AfterPull(o) == "serving"

\* the startup hook returns and the application starts to serve
StartupComplete ==
    /\ phase \in PullOutcomes
    /\ phase' = AfterPull(phase)
    /\ UNCHANGED <<db_pool, storeUp, backendUp, conversations, messages, now,
                   journal, nextRid, minted, reqs>>

\* the shutdown hook: if db_pool: await db_pool.close().  The server runs
\* it once no request is in flight; the handle itself is not reassigned.
shutdown ==
    /\ phase = "serving"
    /\ \A s \in Slots : reqs[s].kind = "idle"
    /\ phase' = "stopped"
    /\ UNCHANGED <<db_pool, storeUp, backendUp, conversations, messages, now,
                   journal, nextRid, minted, reqs>>

\* ------------------------------------------------------------ environment
StoreStops ==
    /\ storeUp /\ storeUp' = FALSE
    /\ UNCHANGED <<phase, db_pool, backendUp, conversations, messages, now,
                   journal, nextRid, minted, reqs>>

StoreStarts ==
    /\ ~storeUp /\ storeUp' = TRUE
    /\ UNCHANGED <<phase, db_pool, backendUp, conversations, messages, now,
                   journal, nextRid, minted, reqs>>

BackendStops ==
    /\ backendUp /\ backendUp' = FALSE
    /\ UNCHANGED <<phase, db_pool, storeUp, conversations, messages, now,
                   journal, nextRid, minted, reqs>>

BackendStarts ==
    /\ ~backendUp /\ backendUp' = TRUE
    /\ UNCHANGED <<phase, db_pool, storeUp, conversations, messages, now,
                   journal, nextRid, minted, reqs>>

\* The positions at which a handler awaits a store call: the acquires, the
\* statements and the releases.
StoreAwaits ==
    [chat |-> {"load", "upsert", "fetch", "release_load",
               "persist", "persist1", "persist2", "release_persist"},
     health |-> {"db", "select", "release"},
     history |-> {"acquire", "query", "release"}]

\* The statements whose argument is uuid.UUID(conversation_id): a malformed
\* id raises before anything is sent, so there is nothing to wait for.
StatementsWithId == {"upsert", "persist1", "query"}

\* A store that stops answering (it keeps its connections open and sends
\* nothing): create_pool is called without command_timeout and no store
\* call of a handler carries a timeout, so the coroutine is never resumed.
\* The calls to the backend have a timeout and end in ReadTimeout instead.
StoreNeverAnswers(s) ==
    LET r == reqs[s]
    IN  /\ db_pool
        /\ r.kind \in DOMAIN StoreAwaits
        /\ r.pc \in StoreAwaits[r.kind]
        /\ r.pc \in StatementsWithId => ValidUUID(r.conversation_id)
        /\ reqs' = [reqs EXCEPT ![s] = [r EXCEPT !.pc = "blocked"]]
        /\ UNCHANGED <<phase, db_pool, storeUp, backendUp, conversations,
                       messages, now, journal, nextRid, minted>>

\* ---------------------------------------------------------- specification
\* One worker (slot 1) serves one request at a time; the store and the
\* backend come and go under it; every call to them is answered or fails.
Init ==
    /\ phase = "boot"
    /\ db_pool = FALSE
    /\ storeUp \in BOOLEAN
    /\ backendUp \in BOOLEAN
    /\ conversations = {}
    /\ messages = {}
    /\ now = 1
    /\ journal = <<>>
    /\ nextRid = 0
    /\ minted = 0
    /\ reqs = [s \in Slots |-> Idle]

Next ==
    \/ startup
    \/ _ensure_model(ProbeReplies(backendUp))
    \/ StartupComplete
    \/ HealthProbeBackend(1, ProbeReplies(backendUp))
    \/ HealthProbeStore(1)
    \/ HealthSelect(1)
    \/ HealthRelease(1)
    \/ StoreStops
    \/ StoreStarts
    \/ BackendStops
    \/ BackendStarts
    \/ ChatBegin(1, MaxRequests, SuppliedIds(minted), UserMessages)
    \/ ChatLoadAcquire(1)
    \/ ChatUpsert(1)
    \/ ChatFetch(1)
    \/ ChatLoadRelease(1)
    \/ ChatInfer(1, BackendReplies(backendUp))
    \/ ChatAcquire(1)
    \/ ChatPersistUser(1)
    \/ ChatPersistAssistant(1)
    \/ ChatPersistRelease(1)
    \/ get_history(1, PathIds(minted))
    \/ HistoryAcquire(1)
    \/ HistoryQuery(1)
    \/ HistoryRelease(1)
    \/ Return(1)
    \/ shutdown

Spec == Init /\ [][Next]_vars

\* The store outlives the process: what earlier runs of the service left in
\* it.  k complete exchanges of one conversation, written in order.
PriorMessage(i) == IF i % 2 = 1 THEN <<"h", "i">> ELSE <<" ", "y", "o">>

RECURSIVE PriorJournal(_)
PriorJournal(k) ==
    IF k = 0 THEN <<>>
    ELSE PriorJournal(k - 1) \o <<Turn(1, "user", PriorMessage(k)),
                                  Turn(1, "assistant", <<"o", "k">>)>>

PriorExchanges(k) ==
    UNION { {NewRow(1, "user", PriorMessage(i), 2 * i - 1, 0),
             NewRow(1, "assistant", <<"o", "k">>, 2 * i, 0)} : i \in 1..k }

\* Requests one after another against a store and a backend that stay up:
\* the service has started with its pool, and the store holds the turns of
\* earlier runs.
InitSerial ==
    /\ phase = "serving"
    /\ db_pool = TRUE
    /\ storeUp = TRUE
    /\ backendUp = TRUE
    /\ \E k \in 0..SerialPreload :
          /\ messages = PriorExchanges(k)
          /\ conversations = IF k = 0 THEN {} ELSE {1}
          /\ now = 2 * k + 1
          /\ journal = PriorJournal(k)
    /\ nextRid = 0
    /\ minted = 0
    /\ reqs = [s \in Slots |-> Idle]

NextSerial ==
    \/ ChatBegin(1, SerialRequests, SerialIds(minted), SerialMessages)
    \/ ChatLoadAcquire(1)
    \/ ChatUpsert(1)
    \/ ChatFetch(1)
    \/ ChatLoadRelease(1)
    \/ ChatInfer(1, SerialReplies)
    \/ ChatAcquire(1)
    \/ ChatPersistUser(1)
    \/ ChatPersistAssistant(1)
    \/ ChatPersistRelease(1)
    \/ get_history(1, SerialPathIds(minted))
    \/ HistoryAcquire(1)
    \/ HistoryQuery(1)
    \/ HistoryRelease(1)
    \/ Return(1)

SpecSerial == InitSerial /\ [][NextSerial]_vars

\* Two workers serve chat requests for one conversation at the same time:
\* each handler is a coroutine that gives way at every await.  The service
\* has started with its pool; the store comes and goes.
PairIds == {<<Canon(h)>> : h \in KnownHex}

InitPair ==
    /\ phase = "serving"
    /\ db_pool = TRUE
    /\ storeUp \in BOOLEAN
    /\ backendUp = TRUE
    /\ conversations = {}
    /\ messages = {}
    /\ now = 1
    /\ journal = <<>>
    /\ nextRid = 0
    /\ minted = 0
    /\ reqs = [s \in Slots |-> Idle]

ChatStep(s, replies) ==
    \/ ChatLoadAcquire(s)
    \/ ChatUpsert(s)
    \/ ChatFetch(s)
    \/ ChatLoadRelease(s)
    \/ ChatInfer(s, replies)
    \/ ChatAcquire(s)
    \/ ChatPersistUser(s)
    \/ ChatPersistAssistant(s)
    \/ ChatPersistRelease(s)

NextPair ==
    \/ StoreStops
    \/ StoreStarts
    \/ \E s \in Slots :
          \/ ChatBegin(s, PairRequests, PairIds, UserMessages)
          \/ ChatStep(s, SerialReplies)
          \/ Return(s)

SpecPair == InitPair /\ [][NextPair]_vars

\* The same two workers over a store that stays up: what the interleaving
\* of the handlers alone can do.
InitRace == InitPair /\ storeUp

NextRace ==
    \E s \in Slots :
        \/ ChatBegin(s, PairRequests, PairIds, UserMessages)
        \/ ChatStep(s, SerialReplies)
        \/ Return(s)

SpecRace == InitRace /\ [][NextRace]_vars

\* the event loop resumes a handler whose await has ended
HandlerStep(s) ==
    \/ ChatStep(s, BackendReplies(backendUp))
    \/ HealthStep(s)
    \/ HistoryStep(s)
    \/ Return(s)

NextHang ==
    \/ StoreStops
    \/ StoreStarts
    \/ BackendStops
    \/ BackendStarts
    \/ ChatBegin(1, HangRequests, PairIds, UserMessages)
    \/ HealthProbeBackend(1, ProbeReplies(backendUp))
    \/ get_history(1, PathIds(minted))
    \/ HandlerStep(1)
    \/ StoreNeverAnswers(1)

\* One worker serving chat, health and history requests; a store and a
\* backend that answer, fail or stop answering; the handler is resumed
\* whenever it can go on.
SpecHang == InitPair /\ [][NextHang]_vars /\ WF_vars(HandlerStep(1))

\* The startup hook runs to its end: the event loop keeps resuming it, the
\* pool creation and the pull both end by an answer, an error or their
\* timeout.  Requests that need no inference are served afterwards.
StartupStep ==
    \/ startup
    \/ _ensure_model(ProbeReplies(backendUp))
    \/ StartupComplete

NextStartup ==
    \/ StartupStep
    \/ StoreStops
    \/ StoreStarts
    \/ BackendStops
    \/ BackendStarts
    \/ HealthProbeBackend(1, ProbeReplies(backendUp))
    \/ HealthProbeStore(1)
    \/ HealthSelect(1)
    \/ HealthRelease(1)
    \/ get_history(1, PathIds(minted))
    \/ HistoryAcquire(1)
    \/ HistoryQuery(1)
    \/ HistoryRelease(1)
    \/ Return(1)
    \/ shutdown

SpecStartup == Init /\ [][NextStartup]_vars /\ WF_vars(StartupStep)

\* _build_prompt on its own: the arguments a caller can pass, histories of
\* up to PromptTurns turns with any role and any content.
PromptRoles == {"user", "assistant", "system"}
PromptContents == { <<"a">>, <<"b", "\n">> }
PromptMessages == { <<>>, <<"h", "i">> }
PromptTurn == [role : PromptRoles, content : PromptContents]
PromptHistories == UNION { [1..k -> PromptTurn] : k \in 0..PromptTurns }

InitPrompt ==
    /\ phase = "serving"
    /\ db_pool = FALSE
    /\ storeUp = FALSE
    /\ backendUp = FALSE
    /\ conversations = {}
    /\ messages = {}
    /\ now = 1
    /\ journal = <<>>
    /\ nextRid = 0
    /\ minted = 0
    /\ \E h \in PromptHistories, m \in PromptMessages :
          reqs = [s \in Slots |->
                    IF s = 1
                    THEN [Idle EXCEPT !.kind = "prompt", !.pc = "build",
                                      !.history = h, !.req.message = m]
                    ELSE Idle]

\* prompt = _build_prompt(history, req.message)
BuildPrompt(s) ==
    LET r == reqs[s]
    IN  /\ r.kind = "prompt" /\ r.pc = "build"
        /\ reqs' = [reqs EXCEPT ![s] =
                      [r EXCEPT !.pc = "done",
                                !.prompt = _build_prompt(r.history, r.req.message)]]
        /\ UNCHANGED <<phase, db_pool, storeUp, backendUp, conversations,
                       messages, now, journal, nextRid, minted>>

NextPrompt == BuildPrompt(1)

SpecPrompt == InitPrompt /\ [][NextPrompt]_vars

\* ================================================================ claims
\* what the backend's reply means for the inference call
RefusedByBackend(reply) ==
    reply.kind = "response" /\ ~IsSuccess(reply.status_code)
Unreachable(reply) == reply.kind \in {"connect_error", "timeout"}
InferenceFailed(reply) == RefusedByBackend(reply) \/ Unreachable(reply)
InferenceSucceeded(reply) ==
    reply.kind = "response" /\ IsSuccess(reply.status_code) /\ reply.json_ok
GeneratedText(reply) == Strip(IF reply.has_response THEN reply.response ELSE <<>>)

Chats == {s \in Slots : reqs[s].kind = "chat"}
Fetches == {s \in Slots : reqs[s].kind = "history"}
RowsWrittenBy(rid) == {row \in messages : row.rid = rid}

\* C1: a chat request whose inference call failed (non-success status,
\* backend unreachable, timeout) has ended in failure and no turn of it,
\* user or assistant, is in the store; it attempted no append.
C1_FailedInferencePersistsNothing ==
    \A s \in Chats :
        InferenceFailed(reqs[s].reply) =>
            /\ reqs[s].pc = "done"
            /\ reqs[s].status \in {502, 503}
            /\ RowsWrittenBy(reqs[s].rid) = {}
            /\ reqs[s].appends = <<>>

\* a failed request that had a pool, a running store and a loaded history:
\* persistence was possible and did not happen
C1_Witness ==
    \E s \in Chats :
        /\ InferenceFailed(reqs[s].reply)
        /\ reqs[s].pc = "done"
        /\ db_pool /\ storeUp /\ reqs[s].loaded
        /\ messages # {}

\* C2: when the store is unreachable for a chat request (no pool, or the
\* registration or the history read failed), the request goes on: the
\* history is empty, the prompt is built from the empty history, the
\* inference call is made, and a successful inference ends in success
\* with the generated text.  A read error logged after the history was
\* read (the connection could not be given back) does not abort the
\* request either.
C2_StoreDownStillAnswers ==
    \A s \in Chats :
        LET r == reqs[s]
            unread == ~db_pool \/ (r.readErr /\ ~r.loaded)
        IN  (~db_pool \/ r.readErr) =>
              /\ unread => r.history = <<>>
              /\ r.pc \in {"infer", "persist", "persist1", "persist2",
                            "release_persist", "done"}
              /\ r.pc # "infer" =>
                    /\ r.inferCalls = 1
                    /\ unread =>
                          r.prompt = Preamble \o <<"User: ">> \o r.req.message
                                     \o <<"\nAssistant:">>
              /\ (r.pc = "done" /\ InferenceSucceeded(r.reply)) =>
                    /\ r.status = 200
                    /\ r.response.response = GeneratedText(r.reply)

\* the conversation was registered, then the history read failed, and the
\* request still returned the generated text
C2_Witness ==
    \E s \in Chats :
        /\ reqs[s].readErr /\ reqs[s].statements >= 2
        /\ ~reqs[s].loaded
        /\ reqs[s].pc = "done" /\ reqs[s].status = 200
        /\ reqs[s].response.response = <<"o", "k">>

\* C3: a chat request whose inference succeeded ends in success with the
\* generated text, the resolved conversation id and the model identifier,
\* whether or not its turns were stored: a failed append or an absent pool
\* changes nothing in the response.
C3_PersistFailureNotSurfaced ==
    \A s \in Chats :
        LET r == reqs[s]
        IN  (r.pc = "done" /\ InferenceSucceeded(r.reply)) =>
              /\ r.status = 200
              /\ r.response =
                    ChatResponse(GeneratedText(r.reply), r.conversation_id, "tinyllama")

\* the assistant turn's append failed after the user turn was stored
C3_Witness ==
    \E s \in Chats :
        /\ reqs[s].pc = "done" /\ reqs[s].writeErr
        /\ reqs[s].status = 200
        /\ Len(reqs[s].appends) = 2 /\ ~reqs[s].appends[2].ok

\* C4 (as claimed): a request carrying a malformed conversation id is
\* rejected before any external call: it sends no statement to the store,
\* makes no inference call, and ends in a failure.
C4_MalformedIdRejectedFirst ==
    \A s \in Slots :
        LET r == reqs[s]
            malformed == \/ r.kind = "chat" /\ r.req.conversation_id = <<BadStr>>
                         \/ r.kind = "history" /\ r.conversation_id = BadStr
                         \/ r.kind = "history" /\ r.conversation_id = BadHexStr
        IN  malformed =>
              /\ r.statements = 0
              /\ r.inferCalls = 0
              /\ r.pc = "done" => r.status >= 400

\* C5 (as claimed): the user turn is appended first and the assistant turn
\* second, and independently: after a failed user append the assistant
\* append is still attempted, and a failed assistant append leaves the
\* stored user turn in place.
C5_AppendsIndependent ==
    \A s \in Chats :
        LET r == reqs[s]
        IN  /\ Len(r.appends) <= 2
            /\ \A i \in 1..Len(r.appends) :
                  r.appends[i].role = IF i = 1 THEN "user" ELSE "assistant"
            /\ (r.pc = "done" /\ r.appends # <<>> /\ ~r.appends[1].ok) =>
                  Len(r.appends) = 2
            /\ (Len(r.appends) = 2 /\ ~r.appends[2].ok) =>
                  \E row \in RowsWrittenBy(r.rid) : row.role = "user"

\* C5 (amended): the user turn is appended first and the assistant turn
\* second; a failed user append ends the persistence step, the assistant
\* append is not attempted; a failed assistant append leaves the stored
\* user turn in place.
C5_UserAppendFailureSkipsAssistant ==
    \A s \in Chats :
        LET r == reqs[s]
            mine == RowsWrittenBy(r.rid)
        IN  /\ Len(r.appends) <= 2
            /\ \A i \in 1..Len(r.appends) :
                  r.appends[i].role = IF i = 1 THEN "user" ELSE "assistant"
            /\ (r.appends # <<>> /\ ~r.appends[1].ok) =>
                  /\ Len(r.appends) = 1
                  /\ r.pc \in {"release_persist", "done"}
                  /\ r.pc = "done" => r.status = 200
                  /\ mine = {}
            /\ (Len(r.appends) = 2 /\ ~r.appends[2].ok) =>
                  /\ r.appends[1].ok
                  /\ \E row \in mine : row.role = "user"
            /\ \A u, a \in mine :
                  (u.role = "user" /\ a.role = "assistant") =>
                      u.created_at < a.created_at

\* the store stopped between the acquire and the first INSERT
C5_Witness ==
    \E s \in Chats :
        /\ reqs[s].pc = "done"
        /\ reqs[s].appends = <<[role |-> "user", ok |-> FALSE]>>
        /\ reqs[s].loaded

\* C6: a chat request ends with 200, 502 or 503 and nothing else; a reply
\* with a non-success status ends it with 502 (BackendError), and only
\* that does; an unreachable backend or a timeout ends it with 503
\* (BackendUnavailable).
C6_FailureClassifiedByCause ==
    \A s \in Chats :
        LET r == reqs[s]
        IN  r.pc = "done" =>
              /\ r.status \in {200, 502, 503}
              /\ RefusedByBackend(r.reply) <=> r.status = 502
              /\ Unreachable(r.reply) => r.status = 503
              /\ r.status = 200 <=> InferenceSucceeded(r.reply)
              /\ r.inferCalls = 1

\* a request refused by a backend that answered with status 500
C6_Witness ==
    \E s \in Chats :
        /\ reqs[s].pc = "done" /\ reqs[s].status = 502
        /\ reqs[s].reply.status_code = 500
        /\ backendUp

\* C7 (as claimed): a successful chat request that was given a
\* conversation id returns exactly that id; one that was given none returns
\* a new id unlike any seen before; its turns are loaded and stored under
\* the id it returns.
C7_SuppliedIdEchoed ==
    \A s \in Chats :
        LET r == reqs[s]
            given == r.req.conversation_id
            id == ParseUUID(r.response.conversation_id)
        IN  (r.pc = "done" /\ r.status = 200) =>
              /\ given # <<>> => r.response.conversation_id = given[1]
              /\ given = <<>> => ValidUUID(r.response.conversation_id) /\ id \notin r.seen
              /\ \A row \in RowsWrittenBy(r.rid) : row.conversation_id = id
              /\ r.loaded => r.history = LoadHistory(messages \ RowsWrittenBy(r.rid), id)

\* C7 (amended): a successful chat request that was given a non-empty
\* conversation id returns exactly that text; one that was given none, or
\* the empty string, returns a new id unlike any seen before; its turns
\* are loaded and stored under the id it returns.
C7_NonEmptyIdEchoed ==
    \A s \in Chats :
        LET r == reqs[s]
            given == r.req.conversation_id
            id == ParseUUID(r.response.conversation_id)
        IN  (r.pc = "done" /\ r.status = 200) =>
              /\ (given # <<>> /\ given[1] # EmptyStr) =>
                    r.response.conversation_id = given[1]
              /\ (given = <<>> \/ given = <<EmptyStr>>) =>
                    /\ ValidUUID(r.response.conversation_id)
                    /\ id \notin r.seen
              /\ \A row \in RowsWrittenBy(r.rid) : row.conversation_id = id
              /\ r.loaded => r.history = LoadHistory(messages \ RowsWrittenBy(r.rid), id)

\* the empty string was supplied; the turns are stored under a new id, in
\* a store that already held another conversation
C7_Witness ==
    \E s \in Chats :
        /\ reqs[s].pc = "done" /\ reqs[s].status = 200
        /\ reqs[s].req.conversation_id = <<EmptyStr>>
        /\ Cardinality(RowsWrittenBy(reqs[s].rid)) = 2
        /\ reqs[s].seen # KnownHex

\* the turns appended to a conversation, oldest first
RECURSIVE TurnsOf(_, _)
TurnsOf(log, id) ==
    IF log = <<>> THEN <<>>
    ELSE IF Head(log).conversation_id = id
    THEN <<[role |-> Head(log).role, content |-> Head(log).content]>>
         \o TurnsOf(Tail(log), id)
    ELSE TurnsOf(Tail(log), id)

\* C8: the history a chat request has loaded is the min(n, 10) most
\* recently created turns of its conversation, n being the number of turns
\* the conversation holds, oldest first: its i-th entry is the turn with
\* exactly Len - i newer turns in the conversation.  No turn of another
\* conversation is in it.
C8_HistoryIsLastTenOldestFirst ==
    \A s \in Chats :
        LET r == reqs[s]
            mine == RowsOf(messages, ParseUUID(r.conversation_id))
            n == Cardinality(mine)
            Newer(row) == Cardinality({q \in mine : q.created_at > row.created_at})
        IN  (r.loaded /\ r.pc \in {"release_load", "infer", "persist", "persist1"}) =>
              /\ Len(r.history) = IF n < 10 THEN n ELSE 10
              /\ \A i \in 1..Len(r.history) :
                    \E row \in mine :
                       /\ Newer(row) = Len(r.history) - i
                       /\ r.history[i] = [role |-> row.role, content |-> row.content]

\* a history loaded from a conversation of more than ten turns, next to
\* another conversation
C8_Witness ==
    \E s \in Chats :
        /\ reqs[s].loaded /\ reqs[s].pc = "infer"
        /\ Cardinality(RowsOf(messages, ParseUUID(reqs[s].conversation_id))) > 10
        /\ Cardinality(messages) >
              Cardinality(RowsOf(messages, ParseUUID(reqs[s].conversation_id)))
        /\ Len(reqs[s].history) = 10

\* C9: a history fetch that meets an unavailable store (no pool, or the
\* store is down when the connection, the query or the release of the
\* connection is awaited) ends in a failure and returns no list: the
\* failure is raised at once or when the block is left, and is never
\* dropped.  It returns an empty list only when the store answered and
\* holds no turn of the conversation.
C9_FetchFailsLoudly ==
    [][ \A s \in Slots :
          (reqs'[s].kind = "history" /\ reqs'[s] # reqs[s]) =>
             LET r == reqs'[s]
                 failing == r.pc = "release" /\ r.exc # ""
                 failed == r.pc = "done" /\ r.status = 500
             IN  /\ (reqs[s].kind = "idle" /\ ~db_pool) =>
                       (r.pc = "done" /\ r.status = 503)
                 /\ (reqs[s].kind = "history" /\ ~storeUp) => (failing \/ failed)
                 /\ (reqs[s].kind = "history" /\ reqs[s].exc # "") => failed
                 /\ failing => r.fetched = <<>>
                 /\ r.status # 200 => r.rows = <<>>
                 /\ (r.status = 200 /\ r.rows = <<>>) =>
                       /\ db_pool /\ storeUp
                       /\ RowsOf(messages, ParseUUID(r.conversation_id)) = {}
      ]_vars

\* a fetch that failed for a conversation whose turns are in the store
C9_Witness ==
    \E s \in Fetches :
        /\ reqs[s].status = 500 /\ ~storeUp /\ db_pool
        /\ ValidUUID(reqs[s].conversation_id)
        /\ RowsOf(messages, ParseUUID(reqs[s].conversation_id)) # {}

\* C10: with a working store and requests served one after another, a
\* history fetch returns the turns appended to the conversation, all of
\* them and no others, roles and contents as appended, in the order of
\* the appends, which is the ascending order of their timestamps.
C10_FetchRoundTrips ==
    \A s \in Fetches :
        LET r == reqs[s]
            id == ParseUUID(r.conversation_id)
            want == TurnsOf(journal, id)
        IN  (r.pc = "done" /\ r.status = 200) =>
              /\ Len(r.rows) = Len(want)
              /\ \A i \in 1..Len(want) :
                    /\ r.rows[i].role = want[i].role
                    /\ r.rows[i].content = want[i].content
              /\ \A i \in 1..Len(r.rows) :
                    \E row \in RowsOf(messages, id) :
                       /\ ToString(row.created_at) = r.rows[i].created_at
                       /\ Cardinality({q \in RowsOf(messages, id) :
                                          q.created_at < row.created_at}) = i - 1

\* a fetch of a conversation of at least three turns, written by more than
\* one request, next to another conversation
C10_Witness ==
    \E s \in Fetches :
        /\ reqs[s].status = 200
        /\ Len(reqs[s].rows) >= 3
        /\ Cardinality(messages) > Len(reqs[s].rows)
        /\ \E i \in 1..Len(reqs[s].rows) : reqs[s].rows[i].content = <<" ", "y", "o">>

\* ------------------------------------------------------------------ health
Healths == {s \in Slots : reqs[s].kind = "health"}
Probed == {s \in Healths : reqs[s].pc = "done"}
Answered200(reply) == reply.kind = "response" /\ reply.status_code = 200

\* what a health response reports: the backend sub-status follows from
\* what the backend did to the tags request alone, the store sub-status
\* from the handle and the store alone, and the top-level status is
\* "healthy" whatever the sub-statuses
ProbesIndependent ==
    \A s \in Probed :
        LET r == reqs[s]
        IN  /\ r.status = 200
            /\ r.health.status = "healthy" /\ r.health.model = MODEL_NAME
            /\ r.health.ollama = "healthy" <=> Answered200(r.probe)
            /\ r.health.ollama = "unreachable" <=> r.probe.kind # "response"
            /\ r.backendAt = "down" => r.health.ollama = "unreachable"
            /\ r.health.database = "healthy" <=> (db_pool /\ r.storeAt = "up")
            /\ r.health.database \in {"healthy", "unhealthy", "unavailable"}
            /\ r.health.ollama \in {"healthy", "unhealthy", "unreachable"}

\* C11 as stated: every health probe returns, and returns successfully,
\* whatever the backend and the store do (answer, fail, or stop answering);
\* the two sub-statuses are independent of each other and the top-level
\* status is the same in every combination of them.
C11_HealthAlwaysReturns ==
    /\ \A s \in Slots :
          (reqs[s].kind = "health") ~> (s \in Probed /\ reqs[s].status = 200)
    /\ [](\A s \in Healths : reqs[s].status \in {0, 200})
    /\ []ProbesIndependent

\* C12 as stated: with both dependencies answering the probe reports both
\* healthy, and whenever the store is stopped it reports the store
\* "unhealthy" while the backend stays healthy.
C12_StoppedStoreReadsUnhealthy ==
    \A s \in Probed :
        LET r == reqs[s]
        IN  /\ (Answered200(r.probe) /\ r.storeAt = "up") =>
                  (r.health.ollama = "healthy" /\ r.health.database = "healthy")
            /\ r.storeAt = "down" =>
                  /\ r.health.database = "unhealthy"
                  /\ Answered200(r.probe) => r.health.ollama = "healthy"

\* C12: what the probe reports about the store follows the handle made at
\* startup: with the handle, "healthy" while the store answers and
\* "unhealthy" once it is stopped; without the handle (store unreachable at
\* startup), "unavailable" whether or not the store is reachable since.
\* The backend sub-status is "healthy" in each case if the backend
\* answers the probe with 200.
C12_StoreStatusFollowsHandle ==
    \A s \in Probed :
        LET r == reqs[s]
        IN  /\ Answered200(r.probe) => r.health.ollama = "healthy"
            /\ (db_pool /\ r.storeAt = "up") => r.health.database = "healthy"
            /\ (db_pool /\ r.storeAt = "down") => r.health.database = "unhealthy"
            /\ ~db_pool => r.health.database = "unavailable"

\* the store was down at startup and is up at the probe
C12_Witness ==
    \E s \in Probed :
        /\ ~db_pool /\ reqs[s].storeAt = "up"
        /\ reqs[s].health.database = "unavailable"
        /\ reqs[s].health.ollama = "healthy"

\* ------------------------------------------------------------------ prompt
\* the line the claim gives for one turn, and the cue for the new message
LabelOf(role) == CASE role = "user" -> "User" [] OTHER -> "Assistant"
LineOf(turn) == <<LabelOf(turn.role), ": ">> \o turn.content \o <<"\n">>
CueOf(message) == <<"User: ">> \o message \o <<"\nAssistant:">>

\* where the line of turn i starts in the prompt: after the preamble and
\* the lines of the turns before it
RECURSIVE LineStart(_, _)
LineStart(history, i) ==
    IF i = 1 THEN Len(Preamble)
    ELSE LineStart(history, i - 1) + Len(LineOf(history[i - 1]))

Built == {s \in Slots : reqs[s].kind = "prompt" /\ reqs[s].pc = "done"}

\* C13: for every history and every new message the prompt is the preamble,
\* then at consecutive positions one line "<label>: <content>" per turn in
\* the order of the history (label User for role user, Assistant for any
\* other role), then the cue "User: <message>", newline, "Assistant:", and
\* nothing else.
C13_PromptLayout ==
    \A s \in Built :
        LET h   == reqs[s].history
            p   == reqs[s].prompt
            n   == Len(h)
            cue == CueOf(reqs[s].req.message)
            end == LineStart(h, n + 1)
        IN  /\ SubSeq(p, 1, Len(Preamble)) = Preamble
            /\ \A i \in 1..n :
                  SubSeq(p, LineStart(h, i) + 1, LineStart(h, i + 1)) = LineOf(h[i])
            /\ SubSeq(p, end + 1, Len(p)) = cue
            /\ Len(p) = end + Len(cue)
            /\ Cardinality({i \in 1..Len(p) : p[i] = ": "}) = n

\* a three-turn history with a role that is neither user nor assistant
C13_Witness ==
    \E s \in Built :
        /\ Len(reqs[s].history) = 3
        /\ reqs[s].history[1].role = "system"
        /\ reqs[s].history[2].role = "user"
        /\ reqs[s].history[3].role = "assistant"
        /\ reqs[s].req.message # <<>>
        /\ Len(reqs[s].prompt) > Len(Preamble) + 3

\* ----------------------------------------------------------------- startup
\* a request can be accepted by an idle worker
Accepting ==
    /\ ENABLED HealthProbeBackend(1, ProbeReplies(backendUp))
    /\ ENABLED get_history(1, PathIds(minted))
    /\ ENABLED ChatBegin(1, nextRid + 1, SuppliedIds(minted), UserMessages)

\* C14: the startup hook always reaches its end, whatever the pool creation
\* and the pull of the model came to; from then on the service stays up
\* (only a shutdown with no request in flight ends it) and an idle worker
\* accepts requests, and whatever the pull came to the next step of the
\* hook is to serve.
C14_StartupCompletes ==
    /\ <>(phase = "serving")
    /\ [](phase = "serving" /\ reqs[1].kind = "idle" => Accepting)
    /\ [][/\ (phase \in PullOutcomes /\ phase' # phase) => (phase' = "serving")
          /\ (phase = "serving" /\ phase' # phase) =>
                (\A s \in Slots : reqs[s].kind = "idle") /\ ENABLED shutdown
         ]_vars

\* the pull failed outright and the store could not be connected: the hook
\* is about to return
C14_Witness ==
    /\ phase = "failed"
    /\ ~db_pool
    /\ ENABLED StartupComplete

\* ------------------------------------------------------------- concurrency
\* the stored turns of conversation id, oldest first
StoredOrder(id) == OrderByCreatedAtAsc(RowsOf(messages, id))
RolesOf(rows) == [i \in 1..Len(rows) |-> rows[i].role]
Accepted == 1..nextRid

\* C15: no chat request ever waits for another one.  Whatever the other
\* worker is doing, an idle worker can accept a request and a request in
\* flight can take its next step, so two requests of one conversation can
\* both be between their history load and their persistence, and their
\* appends can interleave.
C15_NoMutualExclusion ==
    \A s \in Slots :
        LET r == reqs[s]
        IN  /\ (r.kind = "idle" /\ nextRid < PairRequests) =>
                  ENABLED ChatBegin(s, PairRequests, PairIds, UserMessages)
            /\ (r.kind = "chat" /\ r.pc = "load") => ENABLED ChatLoadAcquire(s)
            /\ (r.kind = "chat" /\ r.pc = "upsert") => ENABLED ChatUpsert(s)
            /\ (r.kind = "chat" /\ r.pc = "fetch") => ENABLED ChatFetch(s)
            /\ (r.kind = "chat" /\ r.pc = "release_load") =>
                  ENABLED ChatLoadRelease(s)
            /\ (r.kind = "chat" /\ r.pc = "infer") =>
                  ENABLED ChatInfer(s, SerialReplies)
            /\ (r.kind = "chat" /\ r.pc = "persist") => ENABLED ChatAcquire(s)
            /\ (r.kind = "chat" /\ r.pc = "persist1") => ENABLED ChatPersistUser(s)
            /\ (r.kind = "chat" /\ r.pc = "persist2") =>
                  ENABLED ChatPersistAssistant(s)
            /\ (r.kind = "chat" /\ r.pc = "release_persist") =>
                  ENABLED ChatPersistRelease(s)

\* both requests have answered for the same conversation, neither had the
\* other's turns in its prompt, and the conversation is stored as user,
\* user, assistant, assistant with the two requests' turns interleaved
C15_Witness ==
    /\ \A s \in Slots :
          /\ reqs[s].kind = "chat" /\ reqs[s].pc = "done" /\ reqs[s].status = 200
          /\ reqs[s].conversation_id = Canon(1)
          /\ reqs[s].loaded /\ reqs[s].history = <<>>
          /\ reqs[s].prompt = _build_prompt(<<>>, reqs[s].req.message)
    /\ reqs[1].rid # reqs[2].rid
    /\ LET stored == StoredOrder(1)
       IN  /\ RolesOf(stored) = <<"user", "user", "assistant", "assistant">>
           /\ stored[1].rid # stored[2].rid
           /\ stored[3].rid # stored[4].rid

\* C16: under every interleaving of two workers, what a chat request has
\* stored is nothing, its user turn, or its user turn and then its
\* assistant turn in the same conversation; so an assistant turn is stored
\* only after the user turn of the same request, and no conversation holds
\* more assistant turns than user turns.
C16_AssistantOnlyAfterOwnUser ==
    /\ \A rid \in Accepted :
          LET mine == OrderByCreatedAtAsc(RowsWrittenBy(rid))
          IN  /\ RolesOf(mine) \in {<<>>, <<"user">>, <<"user", "assistant">>}
              /\ \A i, j \in 1..Len(mine) :
                    mine[i].conversation_id = mine[j].conversation_id
    /\ \A row \in messages :
          row.role = "assistant" =>
             \E u \in messages :
                 /\ u.role = "user" /\ u.rid = row.rid
                 /\ u.conversation_id = row.conversation_id
                 /\ u.created_at < row.created_at
    /\ \A id \in conversations \cup {row.conversation_id : row \in messages} :
          Cardinality({row \in RowsOf(messages, id) : row.role = "assistant"})
             <= Cardinality({row \in RowsOf(messages, id) : row.role = "user"})
    /\ \A s \in Chats :
          /\ Len(reqs[s].appends) <= 2
          /\ \A i \in 1..Len(reqs[s].appends) :
                reqs[s].appends[i].role = (IF i = 1 THEN "user" ELSE "assistant")
          /\ Len(reqs[s].appends) = 2 => reqs[s].appends[1].ok

\* two requests interleaved: one stored its user turn only (the store
\* stopped before its assistant turn), the other stored both, around it
C16_Witness ==
    \E a, b \in Accepted :
        LET ra == OrderByCreatedAtAsc(RowsWrittenBy(a))
            rb == OrderByCreatedAtAsc(RowsWrittenBy(b))
        IN  /\ a # b
            /\ RolesOf(ra) = <<"user">>
            /\ RolesOf(rb) = <<"user", "assistant">>
            /\ rb[1].created_at < ra[1].created_at
            /\ ra[1].created_at < rb[2].created_at
            /\ \E s \in Chats : reqs[s].rid = a /\ reqs[s].pc = "done"
                                /\ reqs[s].writeErr

\* --------------------------------------------------------------- inference
\* the request has been answered with BackendError or BackendUnavailable
Failed(r) == r.pc = "done" /\ r.status \in {502, 503}

\* C17: a chat request calls the backend at most once.  The call comes after
\* the history load (with a pool, the load has answered or failed) and
\* before every append; a request that ended in BackendError or
\* BackendUnavailable has made one call, has appended and stored nothing,
\* and has no step left but to hand its answer to the caller.
C17_OneInferenceCall ==
    \A s \in Chats :
        LET r == reqs[s]
        IN  /\ r.inferCalls <= 1
            /\ r.pc \in {"load", "upsert", "fetch", "release_load", "infer"} =>
                  (r.inferCalls = 0 /\ r.appends = <<>>)
            /\ r.pc \in {"persist", "persist1", "persist2", "release_persist"} =>
                  r.inferCalls = 1
            /\ r.appends # <<>> => (r.inferCalls = 1 /\ r.status # 502 /\ r.status # 503)
            /\ (r.inferCalls = 1 /\ db_pool) => (r.loaded \/ r.readErr)
            /\ r.status # 0 => r.inferCalls = 1
            /\ Failed(r) =>
                  /\ r.inferCalls = 1
                  /\ ~InferenceSucceeded(r.reply)
                  /\ r.appends = <<>> /\ RowsWrittenBy(r.rid) = {}
                  /\ ~r.writeErr
                  /\ r.acquires <= 1 /\ r.statements <= 2
                  /\ ~ENABLED ChatStep(s, BackendReplies(backendUp))

\* a request whose history was loaded and whose one call was refused
C17_Witness ==
    \E s \in Chats :
        /\ Failed(reqs[s]) /\ reqs[s].status = 502
        /\ reqs[s].loaded /\ reqs[s].statements = 2
        /\ reqs[s].inferCalls = 1
        /\ storeUp /\ backendUp

\* ------------------------------------------------------------------ handle
\* what holds of a process that came up without its pool
WithoutPool ==
    (phase # "boot" /\ ~db_pool) =>
        /\ messages = {} /\ conversations = {} /\ journal = <<>>
        /\ \A s \in Chats :
              /\ reqs[s].acquires = 0 /\ reqs[s].statements = 0
              /\ ~reqs[s].loaded /\ ~reqs[s].readErr /\ reqs[s].history = <<>>
              /\ reqs[s].appends = <<>> /\ ~reqs[s].writeErr
              /\ reqs[s].pc \notin {"load", "upsert", "fetch", "release_load",
                                     "persist1", "persist2", "release_persist"}
        /\ \A s \in Fetches :
              /\ reqs[s].status = 503 /\ reqs[s].detail = "Database not available"
              /\ reqs[s].acquires = 0 /\ reqs[s].rows = <<>>
        /\ \A s \in Probed :
              /\ reqs[s].health.database = "unavailable"
              /\ reqs[s].acquires = 0

\* C19: only the first step of the startup hook writes the pool handle; no
\* request and no later step does.  A process whose store was down at
\* startup therefore stays without a handle: its chat requests make no
\* store call (nothing loaded, nothing persisted, the store stays as it
\* was), its history fetches fail with 503 and its health probe reports
\* the store "unavailable", also while the store is up again.
C19_HandleWrittenAtStartupOnly ==
    [][/\ (db_pool' # db_pool) => (phase = "boot" /\ phase' = "pull")
       /\ (phase # "boot" /\ ~db_pool) => ~db_pool'
       /\ WithoutPool']_vars

\* the store is up again, the process has no handle, and a chat request
\* has been answered without a store call
C19_Witness ==
    /\ phase = "serving" /\ ~db_pool /\ storeUp
    /\ \E s \in Chats :
          /\ reqs[s].pc = "done" /\ reqs[s].status = 200
          /\ reqs[s].acquires = 0 /\ reqs[s].statements = 0
          /\ reqs[s].rid = 2

\* ------------------------------------------------------------- termination
Terminal(r) == r.pc = "done" /\ r.status \in {200, 502, 503}

\* C18 as stated: every chat request eventually reaches a terminal state,
\* success or classified failure, whatever the store and the backend do
\* (answer, fail, or stop answering).
C18_EveryRequestTerminates ==
    \A s \in Slots : (reqs[s].kind = "chat") ~> Terminal(reqs[s])

====
